---- MODULE Spec2Model ----
(***************************************************************************)
(* Model of s3watcher: the S3Watcher dataclass (construction, the watch()  *)
(* generator, __del__), the record mapper _create_event and the S3Event    *)
(* dataclass it constructs.                                                *)
(*                                                                         *)
(* Python values are tagged tuples: PyNone, PyInt(n), PyStr(s).  A string  *)
(* the code takes apart (split, startswith, int(.., 16), unquote_plus) is  *)
(* a sequence of one-character strings.  A dict entry is either Absent     *)
(* (the key is missing) or a Python value.                                 *)
(***************************************************************************)
EXTENDS Integers, Sequences, FiniteSets, TLC

\* ------------------------------------------------------------------ bounds
MaxBatch == 2       \* messages returned by one receive_messages call
MaxRecords == 2     \* records in one message body
MaxPolls == 2       \* receive_messages calls made by one watch loop

\* ----------------------------------------------------------- Python values
PyNone == <<"none">>
PyInt(n) == <<"int", n>>
PyStr(s) == <<"str", s>>
Absent == <<>>

Raise(e) == [kind |-> "raise", exc |-> e, value |-> PyNone]
Return(v) == [kind |-> "return", exc |-> "", value |-> v]
NoCall == [kind |-> "nocall", exc |-> "", value |-> PyNone]

\* dict.get(key): None when the key is missing
DictGet(field) == IF field = Absent THEN PyNone ELSE field

\* ------------------------------------------------------------ str helpers
HexDigits == {"0","1","2","3","4","5","6","7","8","9",
              "a","b","c","d","e","f","A","B","C","D","E","F"}

HexVal(c) ==
    CASE c = "0" -> 0 [] c = "1" -> 1 [] c = "2" -> 2 [] c = "3" -> 3
      [] c = "4" -> 4 [] c = "5" -> 5 [] c = "6" -> 6 [] c = "7" -> 7
      [] c = "8" -> 8 [] c = "9" -> 9
      [] c \in {"a","A"} -> 10 [] c \in {"b","B"} -> 11
      [] c \in {"c","C"} -> 12 [] c \in {"d","D"} -> 13
      [] c \in {"e","E"} -> 14 [] c \in {"f","F"} -> 15

\* str.startswith
StartsWith(s, p) == Len(s) >= Len(p) /\ SubSeq(s, 1, Len(p)) = p

\* s.split(".")[0]: the part of s before its first "."
RECURSIVE SplitDotFirst(_)
SplitDotFirst(s) ==
    IF s = <<>> \/ Head(s) = "." THEN <<>>
    ELSE <<Head(s)>> \o SplitDotFirst(Tail(s))

\* str.strip() for the blank character
RECURSIVE LStrip(_)
LStrip(s) == IF s # <<>> /\ Head(s) = " " THEN LStrip(Tail(s)) ELSE s
RECURSIVE RStrip(_)
RStrip(s) ==
    IF s # <<>> /\ s[Len(s)] = " " THEN RStrip(SubSeq(s, 1, Len(s) - 1)) ELSE s

\* the digits of an int literal: hex digits, single "_" between digits
DigitsOK(u) ==
    /\ u # <<>>
    /\ u[1] \in HexDigits
    /\ u[Len(u)] \in HexDigits
    /\ \A i \in 1..Len(u) : u[i] \in HexDigits \cup {"_"}
    /\ \A i \in 1..(Len(u) - 1) : ~(u[i] = "_" /\ u[i + 1] = "_")

RECURSIVE DigitsValue(_, _)
DigitsValue(u, acc) ==
    IF u = <<>> THEN acc
    ELSE IF Head(u) = "_" THEN DigitsValue(Tail(u), acc)
    ELSE DigitsValue(Tail(u), 16 * acc + HexVal(Head(u)))

\* int(s, base=16): blanks stripped, an optional sign, an optional 0x/0X
\* prefix (which may be followed by one "_"), then the digits
IntBase16(s) ==
    LET t == RStrip(LStrip(s))
        neg == t # <<>> /\ Head(t) = "-"
        u == IF t # <<>> /\ Head(t) \in {"+", "-"} THEN Tail(t) ELSE t
        pre == Len(u) >= 2 /\ u[1] = "0" /\ u[2] \in {"x", "X"}
        v == IF pre THEN SubSeq(u, 3, Len(u)) ELSE u
        w == IF pre /\ v # <<>> /\ Head(v) = "_" THEN Tail(v) ELSE v
    IN  IF DigitsOK(w)
        THEN Return(PyInt(IF neg THEN 0 - DigitsValue(w, 0) ELSE DigitsValue(w, 0)))
        ELSE Raise("ValueError")

\* chr() for the byte values the escapes of the sample keys produce; a
\* byte of 0x80 and above standing alone decodes to U+FFFD
ByteChar(n) ==
    CASE n = 32 -> " " [] n = 37 -> "%" [] n = 43 -> "+" [] n = 47 -> "/"
      [] n = 65 -> "A" [] n = 97 -> "a"
      [] n >= 128 -> "U+FFFD"
      [] OTHER -> "chr" \o ToString(n)

\* urllib.parse.unquote: %XX with two hex digits becomes the character,
\* any other "%" stays
RECURSIVE Unquote(_)
Unquote(s) ==
    IF s = <<>> THEN <<>>
    ELSE IF Head(s) = "%" /\ Len(s) >= 3 /\ s[2] \in HexDigits /\ s[3] \in HexDigits
    THEN <<ByteChar(16 * HexVal(s[2]) + HexVal(s[3]))>> \o Unquote(SubSeq(s, 4, Len(s)))
    ELSE <<Head(s)>> \o Unquote(Tail(s))

\* urllib.parse.unquote_plus: "+" becomes a blank, then unquote
UnquotePlus(s) ==
    Unquote([i \in 1..Len(s) |-> IF s[i] = "+" THEN " " ELSE s[i]])

\* --------------------------------------------------------------- S3Event
\* FileEventType
CREATED == <<"enum", "created">>
UPDATED == <<"enum", "updated">>
DELETED == <<"enum", "deleted">>

\* the fields of the S3Event dataclass, and those without a default
S3EventFields == {"bucket", "key", "size", "etag", "version_id",
                  "file_event_type", "sequence", "event_datetime", "event_name"}
S3EventRequired == {"bucket", "key", "size", "etag", "version_id", "file_event_type"}
S3EventDefault(f) ==
    IF f = "event_datetime" THEN PyStr("datetime.now() at import") ELSE PyNone

\* S3Event(**kwargs): the dataclass-generated __init__ rejects a keyword
\* that is not a field and a call that leaves a required field out
S3Event(kwargs) ==
    IF ~(DOMAIN kwargs \subseteq S3EventFields) THEN Raise("TypeError")
    ELSE IF ~(S3EventRequired \subseteq DOMAIN kwargs) THEN Raise("TypeError")
    ELSE Return(<<"S3Event",
                  [f \in S3EventFields |->
                      IF f \in DOMAIN kwargs THEN kwargs[f] ELSE S3EventDefault(f)]>>)

\* ----------------------------------------------------- notification records
BucketName == "mybucket"
Chars_ObjectCreated == <<"O","b","j","e","c","t","C","r","e","a","t","e","d",":">>
Chars_ObjectRemoved == <<"O","b","j","e","c","t","R","e","m","o","v","e","d",":">>
Chars_ObjectRestore == <<"O","b","j","e","c","t","R","e","s","t","o","r","e",":">>

Name_Put == PyStr(Chars_ObjectCreated \o <<"P","u","t">>)
Name_Delete == PyStr(Chars_ObjectRemoved \o <<"D","e","l","e","t","e">>)
Name_Restore == PyStr(Chars_ObjectRestore \o <<"C","o","m","p","l","e","t","e","d">>)
EventNames == {Name_Put, Name_Delete, Name_Restore}

\* a record as the storage service writes it, of the given event name;
\* bucket, key, size, eTag and sequencer are record["s3"]["bucket"]["name"]
\* and the entries of record["s3"]["object"]
WellFormed(name) ==
    [eventSource |-> PyStr("aws:s3"), eventVersion |-> PyStr(<<"2",".","1">>),
     bucket |-> PyStr(BucketName), eventName |-> name,
     key |-> PyStr(<<"a","+","b","%","2","F","c">>),
     sequencer |-> PyStr(<<"0","0","5","a">>), size |-> PyInt(1024),
     eTag |-> PyStr("etag1"), eventTime |-> PyStr("2024-01-01T00:00:00.000Z")]

\* the other values a field takes in the records the queue delivers
FieldValues ==
    [eventSource |-> {PyStr("aws:sns"), Absent},
     eventVersion |-> {PyStr(<<"1",".","0">>), PyStr(<<"2","0",".","1">>), Absent},
     bucket |-> {PyStr("otherbucket"), Absent},
     key |-> {Absent},
     sequencer |-> {PyStr(<<"0","0","5","g">>)},
     size |-> {Absent},
     eTag |-> {Absent}]

\* the records the queue delivers: of every event name the well-formed
\* record and those that differ from it in one field, and records that a
\* filter discards and that lack the fields read after it
Records ==
    UNION {{WellFormed(n)}
           \cup UNION {{[WellFormed(n) EXCEPT ![f] = v] : v \in FieldValues[f]} :
                          f \in DOMAIN FieldValues} : n \in EventNames}
    \cup {[WellFormed(Name_Put) EXCEPT !.eventSource = PyStr("aws:sns"),
                                       !.eventVersion = Absent, !.bucket = Absent],
          [WellFormed(Name_Put) EXCEPT !.eventVersion = PyStr(<<"1",".","0">>),
                                       !.bucket = Absent, !.key = Absent],
          [WellFormed(Name_Delete) EXCEPT !.bucket = PyStr("otherbucket"),
                                          !.key = Absent, !.sequencer = Absent],
          [WellFormed(Name_Delete) EXCEPT !.size = Absent, !.eTag = Absent]}

NoRecord ==
    [eventSource |-> Absent, eventVersion |-> Absent, bucket |-> Absent,
     eventName |-> Absent, key |-> Absent, sequencer |-> Absent,
     size |-> Absent, eTag |-> Absent, eventTime |-> Absent]

\* ---------------------------------------------------------- _create_event
\* the S3Event(...) call of the CREATED branch, its arguments evaluated in
\* the order they are written
CreatedEvent(bucket_name, record, key, sequence) ==
    IF record.size = Absent \/ record.eTag = Absent \/ record.eventTime = Absent
    THEN Raise("KeyError")
    ELSE S3Event([bucket |-> PyStr(bucket_name), key |-> PyStr(key),
                  size |-> record.size, etag |-> record.eTag,
                  sequence |-> sequence, file_event_type |-> CREATED,
                  event_time |-> record.eventTime])

\* the S3Event(...) call of the DELETED branch
DeletedEvent(bucket_name, record, key, sequence) ==
    IF record.eventTime = Absent
    THEN Raise("KeyError")
    ELSE S3Event([bucket |-> PyStr(bucket_name), size |-> DictGet(record.size),
                  etag |-> DictGet(record.eTag), key |-> PyStr(key),
                  sequence |-> sequence, file_event_type |-> DELETED,
                  event_time |-> record.eventTime])

\* event_name -> file_event_type
Classify(event_name) ==
    IF StartsWith(event_name, Chars_ObjectCreated) THEN CREATED
    ELSE IF StartsWith(event_name, Chars_ObjectRemoved) THEN DELETED
    ELSE UPDATED

\* _create_event reading the event version before the event source
create_event_VersionFirst(bucket_name, record) ==
    IF record.eventVersion = Absent THEN Raise("KeyError")
    ELSE IF SplitDotFirst(record.eventVersion[2]) # <<"2">> THEN Return(PyNone)
    ELSE IF DictGet(record.eventSource) # PyStr("aws:s3") THEN Return(PyNone)
    ELSE IF record.bucket = Absent THEN Raise("KeyError")
    ELSE IF record.bucket # PyStr(bucket_name) THEN Return(PyNone)
    ELSE IF record.eventName = Absent THEN Raise("KeyError")
    ELSE IF record.key = Absent THEN Raise("KeyError")
    ELSE IF record.sequencer = Absent THEN Raise("KeyError")
    ELSE
      LET file_event_type == Classify(record.eventName[2])
          key == UnquotePlus(record.key[2])
          sequence == IntBase16(record.sequencer[2])
      IN  IF sequence.kind = "raise" THEN sequence
          ELSE IF file_event_type = CREATED
               THEN CreatedEvent(bucket_name, record, key, sequence.value)
          ELSE IF file_event_type = DELETED
               THEN DeletedEvent(bucket_name, record, key, sequence.value)
          ELSE Return(PyNone)

\* S3Watcher._create_event(record); self.bucket.name is self.bucket_name
create_event(bucket_name, record) ==
    IF DictGet(record.eventSource) # PyStr("aws:s3") THEN Return(PyNone)
    ELSE IF record.eventVersion = Absent THEN Raise("KeyError")
    ELSE IF SplitDotFirst(record.eventVersion[2]) # <<"2">> THEN Return(PyNone)
    ELSE IF record.bucket = Absent THEN Raise("KeyError")
    ELSE IF record.bucket # PyStr(bucket_name) THEN Return(PyNone)
    ELSE IF record.eventName = Absent THEN Raise("KeyError")
    ELSE IF record.key = Absent THEN Raise("KeyError")
    ELSE IF record.sequencer = Absent THEN Raise("KeyError")
    ELSE
      LET file_event_type == Classify(record.eventName[2])
          key == UnquotePlus(record.key[2])
          sequence == IntBase16(record.sequencer[2])
      IN  IF sequence.kind = "raise" THEN sequence
          ELSE IF file_event_type = CREATED
               THEN CreatedEvent(bucket_name, record, key, sequence.value)
          ELSE IF file_event_type = DELETED
               THEN DeletedEvent(bucket_name, record, key, sequence.value)
          ELSE Return(PyNone)

\* ------------------------------------------------------------------ state
VARIABLES
    cfg,        \* the dataclass fields set by the generated __init__
    queue,      \* self.queue: "None" or the URL of the sqs.Queue resource
    purges,     \* purge requests issued on the queue
    warned,     \* the "purge already in progress" warning was logged
    pc,         \* position of the watcher / of the watch() generator
    exc,        \* the exception that left watch(), "" if none
    polls,      \* receive_messages calls issued
    messages,   \* the batch the last receive_messages call returned (ids)
    nextId,     \* id of the next message the queue hands out
    msgIdx,     \* position of msg in messages
    body,       \* json.loads(msg.body) of the current message
    recIdx,     \* position of record in body's Records
    record,     \* the loop variable record
    event,      \* the outcome of self._create_event(record)
    yielded,    \* the items handed to the caller for the current message
    deleted,    \* ids of the messages msg.delete() was called on
    discarded,  \* __del__ has run
    delExc,     \* the exception that left __del__, "" if none
    queueDeletes \* queue deletion requests issued

vars == <<cfg, queue, purges, warned, pc, exc, polls, messages, nextId, msgIdx,
          body, recIdx, record, event, yielded, deleted, discarded, delExc,
          queueDeletes>>

QueueUrl == "https://sqs/mybucket-s3watcher"
NoBody == [valid |-> TRUE, hasRecords |-> FALSE, n |-> 0]

\* the message bodies a queue can hold: not JSON, a JSON object without
\* "Records", or one with a Records array of n entries
Bodies ==
    {[valid |-> FALSE, hasRecords |-> FALSE, n |-> 0], NoBody}
    \cup {[valid |-> TRUE, hasRecords |-> TRUE, n |-> k] : k \in 0..MaxRecords}

\* len(body.get("Records", []))
NumRecords(b) == IF b.hasRecords THEN b.n ELSE 0

\* S3Watcher(bucket_name, ...): the generated __init__ stores its arguments
Init ==
    /\ cfg \in [create_sqs_queue : BOOLEAN, queue_url : {"None", QueueUrl},
                purge_queue_before_watching : BOOLEAN,
                delete_sqs_queue_after_done : BOOLEAN]
    /\ queue = "None"
    /\ purges = 0
    /\ warned = FALSE
    /\ pc = "init"
    /\ exc = ""
    /\ polls = 0
    /\ messages = <<>>
    /\ nextId = 1
    /\ msgIdx = 0
    /\ body = NoBody
    /\ recIdx = 0
    /\ record = NoRecord
    /\ event = NoCall
    /\ yielded = <<>>
    /\ deleted = {}
    /\ discarded = FALSE
    /\ delExc = ""
    /\ queueDeletes = 0

\* the value of __post_init__'s own parameter queue_url: the generated
\* __init__ calls self.__post_init__() without arguments (the class has no
\* InitVar field), so the parameter keeps its default
PostInitArg(c) == "None"

\* S3Watcher.__post_init__(self, queue_url=None)
PostInit ==
    /\ pc = "init"
    /\ LET queue_url == PostInitArg(cfg) IN
       IF queue_url # "None"
       THEN /\ queue' = queue_url
            /\ IF cfg.purge_queue_before_watching
               THEN \E answer \in {"ok", "PurgeQueueInProgress", "ClientError"} :
                      /\ purges' = purges + 1
                      /\ warned' = (answer = "PurgeQueueInProgress")
                      /\ pc' = IF answer = "ClientError" THEN "failed" ELSE "constructed"
               ELSE /\ pc' = "constructed"
                    /\ UNCHANGED <<purges, warned>>
       ELSE /\ queue' = "None"
            /\ pc' = "constructed"
            /\ UNCHANGED <<purges, warned>>
    /\ UNCHANGED <<cfg, exc, polls, messages, nextId, msgIdx, body, recIdx,
                   record, event, yielded, deleted, discarded, delExc, queueDeletes>>

\* watch() up to the while loop, run by the caller's first next(): the
\* outcomes of setup_notification_and_queue are a queue found, no "Queue"
\* entry in the configuration, a ClientError and the ValueError
StartWatch ==
    /\ pc = "constructed"
    /\ ~discarded
    /\ IF cfg.create_sqs_queue
       THEN \E outcome \in {"queue", "noqueue", "ClientError", "ValueError"} :
              /\ queue' = IF outcome = "queue" THEN QueueUrl ELSE queue
              /\ cfg' = IF outcome = "queue"
                        THEN [cfg EXCEPT !.queue_url = QueueUrl] ELSE cfg
              /\ pc' = IF outcome \in {"queue", "noqueue"} THEN "poll" ELSE "raised"
              /\ exc' = IF outcome \in {"queue", "noqueue"} THEN "" ELSE outcome
       ELSE /\ pc' = "poll"
            /\ UNCHANGED <<queue, cfg, exc>>
    /\ UNCHANGED <<purges, warned, polls, messages, nextId, msgIdx, body, recIdx,
                   record, event, yielded, deleted, discarded, delExc, queueDeletes>>

\* messages = self.queue.receive_messages(...): a None queue has no such
\* attribute; the call fails or returns up to MaxBatch messages
Receive ==
    /\ pc = "poll"
    /\ polls < MaxPolls
    /\ IF queue = "None"
       THEN /\ pc' = "raised"
            /\ exc' = "AttributeError"
            /\ UNCHANGED <<polls, messages, nextId, msgIdx>>
       ELSE /\ polls' = polls + 1
            /\ \/ /\ pc' = "raised"
                  /\ exc' = "ClientError"
                  /\ UNCHANGED <<messages, nextId, msgIdx>>
               \/ \E n \in 0..MaxBatch :
                    /\ messages' = [i \in 1..n |-> nextId + i - 1]
                    /\ nextId' = nextId + n
                    /\ msgIdx' = IF n = 0 THEN 0 ELSE 1
                    /\ pc' = IF n = 0 THEN "sleep" ELSE "msg"
                    /\ exc' = exc
    /\ UNCHANGED <<cfg, queue, purges, warned, body, recIdx, record, event,
                   yielded, deleted, discarded, delExc, queueDeletes>>

\* a loop that ends when a poll returns no message
Sleep_Stops ==
    /\ pc = "sleep"
    /\ pc' = "closed"
    /\ UNCHANGED <<cfg, queue, purges, warned, exc, polls, messages, nextId,
                   msgIdx, body, recIdx, record, event, yielded, deleted,
                   discarded, delExc, queueDeletes>>

\* if num_messages == 0: time.sleep(self.wait_seconds); the for loop over
\* no messages ends at once and the while loop comes round
Sleep ==
    /\ pc = "sleep"
    /\ pc' = "poll"
    /\ UNCHANGED <<cfg, queue, purges, warned, exc, polls, messages, nextId,
                   msgIdx, body, recIdx, record, event, yielded, deleted,
                   discarded, delExc, queueDeletes>>

\* msg_id = msg.message_id; body = json.loads(msg.body)
LoadBody ==
    /\ pc = "msg"
    /\ \E b \in Bodies :
         /\ body' = b
         /\ IF b.valid
            THEN pc' = "records" /\ exc' = exc
            ELSE pc' = "raised" /\ exc' = "JSONDecodeError"
    /\ recIdx' = 1
    /\ yielded' = <<>>
    /\ UNCHANGED <<cfg, queue, purges, warned, polls, messages, nextId, msgIdx,
                   record, event, deleted, discarded, delExc, queueDeletes>>

\* a loop that deletes msg before it yields the event of its last record
MapRecord_DeletesFirst ==
    /\ pc = "records"
    /\ recIdx <= NumRecords(body)
    /\ \E r \in Records :
         LET e == create_event(BucketName, r) IN
         /\ record' = r
         /\ event' = e
         /\ IF e.kind = "raise"
            THEN pc' = "raised" /\ exc' = e.exc /\ yielded' = yielded
                 /\ deleted' = deleted
            ELSE pc' = "yielded" /\ exc' = exc /\ yielded' = Append(yielded, e.value)
                 /\ deleted' = IF recIdx = NumRecords(body)
                               THEN deleted \cup {messages[msgIdx]} ELSE deleted
    /\ UNCHANGED <<cfg, queue, purges, warned, polls, messages, nextId, msgIdx,
                   body, recIdx, discarded, delExc, queueDeletes>>

\* a loop that catches what the mapper raises and goes on to the next record
MapRecord_Swallows ==
    /\ pc = "records"
    /\ recIdx <= NumRecords(body)
    /\ \E r \in Records :
         LET e == create_event(BucketName, r) IN
         /\ record' = r
         /\ event' = e
         /\ IF e.kind = "raise"
            THEN pc' = "records" /\ recIdx' = recIdx + 1 /\ yielded' = yielded
            ELSE pc' = "yielded" /\ recIdx' = recIdx
                 /\ yielded' = Append(yielded, e.value)
    /\ UNCHANGED <<cfg, queue, purges, warned, exc, polls, messages, nextId,
                   msgIdx, body, deleted, discarded, delExc, queueDeletes>>

\* event = self._create_event(record); print(record); yield event
\* (the content of a record is drawn when the loop reads it)
MapRecord ==
    /\ pc = "records"
    /\ recIdx <= NumRecords(body)
    /\ \E r \in Records :
         LET e == create_event(BucketName, r) IN
         /\ record' = r
         /\ event' = e
         /\ IF e.kind = "raise"
            THEN pc' = "raised" /\ exc' = e.exc /\ yielded' = yielded
            ELSE pc' = "yielded" /\ exc' = exc /\ yielded' = Append(yielded, e.value)
    /\ UNCHANGED <<cfg, queue, purges, warned, polls, messages, nextId, msgIdx,
                   body, recIdx, deleted, discarded, delExc, queueDeletes>>

\* the caller asks for the next item: the generator resumes after the yield
CallerNext ==
    /\ pc = "yielded"
    /\ recIdx' = recIdx + 1
    /\ pc' = "records"
    /\ UNCHANGED <<cfg, queue, purges, warned, exc, polls, messages, nextId,
                   msgIdx, body, record, event, yielded, deleted, discarded,
                   delExc, queueDeletes>>

\* the caller stops iterating: the generator is closed at the yield
CallerClose ==
    /\ pc = "yielded"
    /\ pc' = "closed"
    /\ UNCHANGED <<cfg, queue, purges, warned, exc, polls, messages, nextId,
                   msgIdx, body, recIdx, record, event, yielded, deleted,
                   discarded, delExc, queueDeletes>>

\* a loop that deletes only a message it yielded something for
DeleteMsg_SkipsEmpty ==
    /\ pc = "records"
    /\ recIdx > NumRecords(body)
    /\ deleted' = IF yielded = <<>> THEN deleted
                  ELSE deleted \cup {messages[msgIdx]}
    /\ IF msgIdx < Len(messages)
       THEN msgIdx' = msgIdx + 1 /\ pc' = "msg"
       ELSE msgIdx' = msgIdx /\ pc' = "poll"
    /\ UNCHANGED <<cfg, queue, purges, warned, exc, polls, messages, nextId,
                   body, recIdx, record, event, yielded, discarded, delExc,
                   queueDeletes>>

\* the records of msg are exhausted: msg.delete(), then the next message
\* of the batch or the next round of the while loop
DeleteMsg ==
    /\ pc = "records"
    /\ recIdx > NumRecords(body)
    /\ deleted' = deleted \cup {messages[msgIdx]}
    /\ IF msgIdx < Len(messages)
       THEN msgIdx' = msgIdx + 1 /\ pc' = "msg"
       ELSE msgIdx' = msgIdx /\ pc' = "poll"
    /\ UNCHANGED <<cfg, queue, purges, warned, exc, polls, messages, nextId,
                   body, recIdx, record, event, yielded, discarded, delExc,
                   queueDeletes>>

\* S3Watcher._delete_sqs_queue
delete_sqs_queue == Raise("NotImplementedError")

\* S3Watcher.__del__: the watcher is discarded; a generator that is still
\* running keeps it alive
Del ==
    /\ pc \in {"constructed", "raised", "closed"}
    /\ ~discarded
    /\ discarded' = TRUE
    /\ IF cfg.delete_sqs_queue_after_done
       THEN LET r == delete_sqs_queue IN
            /\ delExc' = r.exc
            /\ queueDeletes' = IF r.kind = "raise" THEN queueDeletes
                               ELSE queueDeletes + 1
       ELSE UNCHANGED <<delExc, queueDeletes>>
    /\ UNCHANGED <<cfg, queue, purges, warned, pc, exc, polls, messages, nextId,
                   msgIdx, body, recIdx, record, event, yielded, deleted>>

Next ==
    \/ PostInit
    \/ StartWatch
    \/ Receive
    \/ Sleep
    \/ LoadBody
    \/ MapRecord
    \/ CallerNext
    \/ CallerClose
    \/ DeleteMsg
    \/ Del

Spec == Init /\ [][Next]_vars

\* time.sleep returns: a running generator takes its next step
FairSpec == Spec /\ WF_vars(Sleep)

TypeOK ==
    /\ pc \in {"init", "constructed", "failed", "poll", "sleep", "msg",
               "records", "yielded", "raised", "closed"}
    /\ polls \in 0..MaxPolls
    /\ Len(messages) <= MaxBatch

\* ------------------------------------------------------------- properties
\* the event version reads "2" or "2.x"
HasMajor2(v) == Len(v) >= 1 /\ v[1] = "2" /\ (Len(v) = 1 \/ v[2] = ".")

SourceForeign(r) == r.eventSource # PyStr("aws:s3")
VersionUnsupported(r) == r.eventVersion # Absent /\ ~HasMajor2(r.eventVersion[2])
BucketForeign(r) == r.bucket # Absent /\ r.bucket # PyStr(BucketName)

\* the record passes the source, version and bucket filters
PassesFilters(r) ==
    /\ ~SourceForeign(r)
    /\ r.eventVersion # Absent /\ HasMajor2(r.eventVersion[2])
    /\ r.bucket = PyStr(BucketName)

\* the record fails the first filter it reaches that it does not pass
FailsAdmission(r) ==
    \/ SourceForeign(r)
    \/ ~SourceForeign(r) /\ VersionUnsupported(r)
    \/ /\ ~SourceForeign(r)
       /\ r.eventVersion # Absent /\ HasMajor2(r.eventVersion[2])
       /\ BucketForeign(r)

\* the mapper has run on record in the current message and event is its outcome
Mapped == pc \in {"yielded", "raised"} /\ event.kind # "nocall" /\ body.valid
          /\ recIdx <= NumRecords(body)
          /\ (pc = "raised" => exc = event.exc /\ event.kind = "raise")

IsS3Event(v) == Len(v) = 2 /\ v[1] = "S3Event"

\* C1: in the watch loop a message is deleted as soon as the loop over its
\* records is exhausted, whatever was yielded for them: every message of the
\* batch the loop has moved past is deleted, and the step the loop takes
\* with the records of msg exhausted deletes msg without raising (so a
\* message with an empty or absent Records array is deleted with nothing
\* yielded).
C1_ProcessedMessageDeleted ==
    /\ [](\A i \in 1..Len(messages) :
            (i < msgIdx \/ (pc \in {"poll", "sleep"})) => messages[i] \in deleted)
    /\ [][(pc = "records" /\ recIdx > NumRecords(body))
            => (messages[msgIdx] \in deleted' /\ exc' = "" /\ yielded' = yielded
                /\ pc' \in {"msg", "poll"})]_vars

\* a message with an empty Records array has just been deleted, nothing
\* yielded for it and no error raised
C1_Witness ==
    /\ pc \in {"msg", "poll"}
    /\ body.valid /\ body.hasRecords /\ body.n = 0
    /\ yielded = <<>>
    /\ exc = ""
    /\ \E i \in 1..Len(messages) : messages[i] \in deleted

\* C2: when a poll returned one message of one valid ObjectCreated record,
\* the mapper's outcome for it is a Created event with the decoded key, the
\* size and the parsed sequence number, nothing is raised and that event is
\* the one item yielded for the message.
C2_OneCreatedEventYielded ==
    (Mapped /\ Len(messages) = 1 /\ NumRecords(body) = 1
       /\ record = WellFormed(Name_Put))
    => /\ pc = "yielded"
       /\ exc = ""
       /\ event.kind = "return"
       /\ IsS3Event(event.value)
       /\ event.value[2].file_event_type = CREATED
       /\ event.value[2].key = PyStr(<<"a"," ","b","/","c">>)
       /\ event.value[2].size = PyInt(1024)
       /\ event.value[2].sequence = PyInt(90)
       /\ yielded = <<event.value>>

\* C3: every item watch() hands to the caller is an event, never None.
C3_OnlyEventsYielded ==
    \A i \in 1..Len(yielded) : yielded[i] # PyNone

\* C4: a record that passes the three filters, whose event name starts
\* with neither "ObjectCreated:" nor "ObjectRemoved:" and for which the
\* mapper returns, is mapped to an event of kind UPDATED, never to None.
C4_UnclassifiedIsUpdated ==
    (Mapped /\ event.kind = "return" /\ PassesFilters(record)
       /\ record.eventName = Name_Restore)
    => /\ IsS3Event(event.value)
       /\ event.value[2].file_event_type = UPDATED

\* C5: a watcher constructed with a queue URL and purge_queue_before_watching
\* has issued a purge request on that queue once it is constructed, and so
\* before its first poll; a "purge already in progress" answer does not fail
\* the construction.
C5_PurgeBeforeFirstPoll ==
    /\ (pc \in {"constructed", "poll"} /\ polls = 0 /\ ~cfg.create_sqs_queue
          /\ cfg.queue_url # "None" /\ cfg.purge_queue_before_watching)
       => (purges >= 1 /\ queue = cfg.queue_url)
    /\ warned => pc # "failed"

\* C6: after a poll that returned no message the loop neither ends nor
\* yields: it is in the sleep, holding no message and no error, its next
\* step returns to the poll with nothing yielded, deleted or raised, and
\* it does take that step.
C6_EmptyPollRetries ==
    /\ [](pc = "sleep" => (messages = <<>> /\ exc = "" /\ polls >= 1))
    /\ [][(pc = "poll" /\ polls' = polls + 1 /\ messages' = <<>> /\ exc' = "")
            => pc' = "sleep"]_vars
    /\ [][pc = "sleep"
            => (pc' = "poll" /\ exc' = "" /\ yielded' = yielded
                /\ deleted' = deleted /\ polls' = polls)]_vars
    /\ (pc = "sleep") ~> (pc = "poll")

\* the loop is back at the poll after a poll that returned no message
C6_Witness ==
    pc = "poll" /\ polls >= 1 /\ messages = <<>> /\ exc = ""

\* C7: discarding a watcher configured to delete its queue issues a queue
\* deletion and lets no exception out of __del__.
C7_TeardownSwallows ==
    (discarded /\ cfg.delete_sqs_queue_after_done)
    => (queueDeletes >= 1 /\ delExc = "")

\* the sequencer holds a character that no base-16 literal can hold
NotHex(q) ==
    \E i \in 1..Len(q) : q[i] \notin HexDigits \cup {"x", "X", "_", "+", "-", " "}

\* C8: an exception raised by the receive call or by the mapper leaves
\* watch() (the generator is at "raised" with that exception) and nothing is
\* yielded for the record; a record that reaches the sequencer parse with a
\* non-hexadecimal sequencer raises ValueError; and once watch() has raised,
\* it yields nothing, polls nothing and deletes nothing any more.
C8_ErrorEndsIteration ==
    /\ [](pc = "raised" <=> exc # "")
    /\ [][(pc = "records" /\ event'.kind = "raise" /\ exc' # exc)
            => (pc' = "raised" /\ exc' = event'.exc /\ yielded' = yielded)]_vars
    /\ [][(pc = "records" /\ recIdx <= NumRecords(body)
             /\ PassesFilters(record') /\ record'.key # Absent
             /\ NotHex(record'.sequencer[2]))
            => (pc' = "raised" /\ exc' = "ValueError" /\ yielded' = yielded)]_vars
    /\ [][pc = "raised"
            => (pc' = "raised" /\ exc' = exc /\ yielded' = yielded
                /\ polls' = polls /\ deleted' = deleted /\ recIdx' = recIdx)]_vars

\* watch() has raised the ValueError of a non-hexadecimal sequencer
C8_Witness ==
    /\ pc = "raised" /\ exc = "ValueError"
    /\ PassesFilters(record) /\ NotHex(record.sequencer[2])
    /\ event.kind = "raise"

\* C9: the mapper returns None, without raising, for a record that fails
\* the first of the source, version and bucket filters it reaches, whatever
\* its later fields are.
C9_FilteredRecordIsNone ==
    (Mapped /\ FailsAdmission(record)) => event = Return(PyNone)

\* a record of a foreign source without an eventVersion was mapped to None
C9_Witness ==
    /\ Mapped /\ pc = "yielded"
    /\ record.eventSource = PyStr("aws:sns") /\ record.eventVersion = Absent
    /\ event = Return(PyNone)

\* C10: an ObjectRemoved record of the bound bucket that lacks size or eTag
\* (its other fields well formed) is mapped, without raising, to a DELETED
\* event whose missing size / etag is None.
C10_DeletedAbsentFields ==
    (Mapped /\ PassesFilters(record) /\ record.eventName = Name_Delete
       /\ record.key # Absent /\ ~NotHex(record.sequencer[2])
       /\ (record.size = Absent \/ record.eTag = Absent))
    => /\ event.kind = "return"
       /\ IsS3Event(event.value)
       /\ event.value[2].file_event_type = DELETED
       /\ (record.size = Absent => event.value[2].size = PyNone)
       /\ (record.eTag = Absent => event.value[2].etag = PyNone)

\* the generator stopped at a record of the current message: the caller
\* closed it at the yield, or the mapper raised
StoppedAtRecord ==
    \/ pc = "closed"
    \/ pc = "raised" /\ Mapped

\* C11: msg.delete() comes after the yield of the last record of msg and
\* the caller's request for the next item: a message is deleted only by the
\* running generator with one item yielded for each of its records; while
\* the caller holds an item yielded from msg, msg is not deleted; and once
\* the caller has stopped iterating or the mapper has raised at a record of
\* msg, the earlier messages of the batch are deleted, msg and the later ones
\* are not, and nothing is deleted any more.
C11_DeleteAfterYieldAndResume ==
    /\ [](pc = "yielded" => messages[msgIdx] \notin deleted)
    /\ [](StoppedAtRecord
            => \A i \in 1..Len(messages) :
                 (i < msgIdx <=> messages[i] \in deleted))
    /\ [][deleted' # deleted
            => (/\ pc = "records"
                /\ Len(yielded) = NumRecords(body)
                /\ recIdx = NumRecords(body) + 1
                /\ deleted' = deleted \cup {messages[msgIdx]})]_vars
    /\ [][(pc \in {"closed", "raised"}) => (deleted' = deleted)]_vars

\* the caller stopped iterating at a record of the second message of a
\* batch: the first message is deleted, the second is not
C11_Witness ==
    /\ pc = "closed"
    /\ Len(messages) = 2 /\ msgIdx = 2
    /\ messages[1] \in deleted
    /\ messages[2] \notin deleted

====
